---------------------------- MODULE Spec2Model ----------------------------
(***************************************************************************)
(* Model of app.py, the Streamlit health dashboard.                        *)
(*                                                                         *)
(* The script is executed top to bottom once per user interaction (a       *)
(* "script run").  Its state is the Streamlit session state (social_mode,  *)
(* metrics, micro_workouts, water_intake, readiness_score), the SQLite     *)
(* table health_logs and the calendar day.  One action models one whole    *)
(* script run with at most one pressed button.                             *)
(*                                                                         *)
(* Number representation.  visceral fat is a float entered in steps of 0.5 *)
(* and is held here in units of 0.5 (25.0 is 50).  muscle and bmi are held *)
(* in units of 0.1.  The float base_score of calculate_readiness is a      *)
(* multiple of 0.25 and is held in units of 0.25; int() is truncation      *)
(* towards zero.                                                           *)
(***************************************************************************)
EXTENDS Integers, Sequences, FiniteSets, TLC

VARIABLES
    social_mode,      \* st.session_state.social_mode
    metrics,          \* st.session_state.metrics
    micro_workouts,   \* st.session_state.micro_workouts
    water_intake,     \* st.session_state.water_intake
    readiness_score,  \* st.session_state.readiness_score
    today,            \* the day datetime.date.today() returns (ordinal)
    db,               \* the SQLite file: does health_logs exist, and its rows
    pressed,          \* the button that triggered the last script run
    run_end,          \* how the last script run ended: "end", "rerun", "exception"
    failed,           \* the storage operations that raised in the last script run
    probe             \* a direct call of the pure functions: arguments and result

session == <<social_mode, metrics, micro_workouts, water_intake, readiness_score>>
runlog == <<pressed, run_end, failed>>
vars == <<social_mode, metrics, micro_workouts, water_intake, readiness_score,
          today, db, pressed, run_end, failed, probe>>

Max(a, b) == IF a >= b THEN a ELSE b
Min(a, b) == IF a <= b THEN a ELSE b

---------------------------------------------------------------------------
(* Pure functions                                                          *)

check_red_flag_strict(bp_sys, hr) ==
    IF bp_sys > 160 \/ hr > 100 THEN TRUE ELSE FALSE

\* app.py 29-33
check_red_flag(bp_sys, hr) ==
    IF bp_sys >= 160 \/ hr >= 100 THEN TRUE ELSE FALSE

\* int() of a float held in units of 0.25: truncation towards zero
IntOfQuarters(q) == IF q >= 0 THEN q \div 4 ELSE -((-q) \div 4)

\* base_score of calculate_readiness right before its return statement,
\* in units of 0.25
base_score(vf, hr, bp_sys, body_age, actual_age, social, workouts, water, goal) ==
    LET b0 == 100 * 4
        b1 == IF vf > 20 THEN b0 - (vf - 20) * 3 ELSE b0
        b2 == IF hr > 65 THEN b1 - (hr - 65) * 2 * 4 ELSE b1
        b3 == IF bp_sys > 130 THEN b2 - (bp_sys - 130) * 1 * 4 ELSE b2
        age_gap == body_age - actual_age
        b4 == IF age_gap > 0 THEN b3 - age_gap * 1 * 4 ELSE b3
        b5 == IF social THEN b4 - 20 * 4 ELSE b4
        b6 == b5 + (workouts * 3) * 4
        b7 == IF water >= goal THEN b6 + 5 * 4 ELSE b6
    IN  b7

calculate_readiness_noclamp0(vf, hr, bp_sys, body_age, actual_age, social, workouts, water, goal) ==
    Min(100, IntOfQuarters(
        base_score(vf, hr, bp_sys, body_age, actual_age, social, workouts, water, goal)))

calculate_readiness_round(vf, hr, bp_sys, body_age, actual_age, social, workouts, water, goal) ==
    Max(0, Min(100,
        (base_score(vf, hr, bp_sys, body_age, actual_age, social, workouts, water, goal) + 2)
            \div 4))

calculate_readiness_ceil(vf, hr, bp_sys, body_age, actual_age, social, workouts, water, goal) ==
    Max(0, Min(100,
        (base_score(vf, hr, bp_sys, body_age, actual_age, social, workouts, water, goal) + 3)
            \div 4))

calculate_readiness_plus2(vf, hr, bp_sys, body_age, actual_age, social, workouts, water, goal) ==
    Max(0, Min(100, IntOfQuarters(
        base_score(vf, hr, bp_sys, body_age, actual_age, social, workouts, water, goal)
            - workouts * 4)))

\* app.py 35-51
calculate_readiness(vf, hr, bp_sys, body_age, actual_age, social, workouts, water, goal) ==
    Max(0, Min(100, IntOfQuarters(
        base_score(vf, hr, bp_sys, body_age, actual_age, social, workouts, water, goal))))

\* calculate_readiness on a record of its nine arguments
Readiness(a) ==
    calculate_readiness(a.vf, a.hr, a.bp_sys, a.body_age, a.actual_age,
                        a.social_mode, a.micro_workouts, a.water_intake, a.water_goal)

BaseScore(a) ==
    base_score(a.vf, a.hr, a.bp_sys, a.body_age, a.actual_age,
               a.social_mode, a.micro_workouts, a.water_intake, a.water_goal)

---------------------------------------------------------------------------
(* Session state after the initialisation block of the first script run    *)

\* app.py 74-77
DefaultMetrics ==
    [actual_age |-> 54, body_age |-> 69, vf |-> 50, muscle |-> 267, bmi |-> 338,
     hr |-> 63, bp_sys |-> 119, bp_dia |-> 79]

WaterGoal_fixed(social) == 2000

\* app.py 82
WaterGoal(social) == IF social THEN 3000 ELSE 2000

\* the arguments every handler passes when it recomputes the score from the
\* session state
SessionArgs(m, social, workouts, water, goal) ==
    [vf |-> m.vf, hr |-> m.hr, bp_sys |-> m.bp_sys, body_age |-> m.body_age,
     actual_age |-> m.actual_age, social_mode |-> social,
     micro_workouts |-> workouts, water_intake |-> water, water_goal |-> goal]

---------------------------------------------------------------------------
(* Direct calls of the pure functions                                      *)

MaxArgWorkouts == 3

VfArgs == {-4, 20, 21, 50, 61, 2000}
HrArgs == {-10, 63, 66, 80, 99, 100}
BpArgs == {-10, 119, 120, 131, 159, 160, 100000}
BodyAgeArgs == {40, 69}
ActualAgeArgs == {54}
WaterArgs == {0, 2000}
GoalArgs == {2000, 3000}

ProbeArgs ==
    [vf : VfArgs, hr : HrArgs, bp_sys : BpArgs, body_age : BodyAgeArgs,
     actual_age : ActualAgeArgs, social_mode : BOOLEAN,
     micro_workouts : -1 .. MaxArgWorkouts, water_intake : WaterArgs,
     water_goal : GoalArgs]

DefaultArgs == SessionArgs(DefaultMetrics, FALSE, 0, 0, WaterGoal(FALSE))

IdleProbe == [args |-> DefaultArgs, fn |-> "none", value |-> 0, prev |-> 0, flag |-> FALSE]

\* the session state the first script run builds (app.py 71-90)
SessionInit ==
    /\ social_mode = FALSE
    /\ metrics = DefaultMetrics
    /\ micro_workouts = 0
    /\ water_intake = 0
    /\ readiness_score =
         Readiness(SessionArgs(DefaultMetrics, FALSE, 0, 0, WaterGoal(FALSE)))

AppIdle ==
    /\ SessionInit
    /\ today = 1
    /\ db = [exists |-> FALSE, health_logs |-> {}]
    /\ pressed = "none"
    /\ run_end = "end"
    /\ failed = {}

InitFn ==
    /\ AppIdle
    /\ \E a \in ProbeArgs :
         probe = [args |-> a, fn |-> "none", value |-> 0, prev |-> 0, flag |-> FALSE]

AppUnchanged == UNCHANGED <<social_mode, metrics, micro_workouts, water_intake,
                            readiness_score, today, db, pressed, run_end, failed>>

CallCalculateReadiness ==
    /\ probe.fn = "none"
    /\ probe' = [probe EXCEPT !.fn = "calculate_readiness",
                              !.value = Readiness(probe.args)]
    /\ AppUnchanged

CallCheckRedFlag ==
    /\ probe.fn = "none"
    /\ probe' = [probe EXCEPT !.fn = "check_red_flag",
                              !.flag = check_red_flag(probe.args.bp_sys, probe.args.hr)]
    /\ AppUnchanged

\* the same call again with micro_workouts one higher, all else equal
CallWithOneMoreWorkout ==
    /\ probe.fn = "calculate_readiness"
    /\ LET more == [probe.args EXCEPT !.micro_workouts = @ + 1]
       IN  probe' = [probe EXCEPT !.fn = "one_more_workout",
                                  !.args = more,
                                  !.prev = probe.value,
                                  !.value = Readiness(more)]
    /\ AppUnchanged

NextFn ==
    \/ CallCalculateReadiness
    \/ CallCheckRedFlag
    \/ CallWithOneMoreWorkout

SpecFn == InitFn /\ [][NextFn]_vars

---------------------------------------------------------------------------
(* Strings: a string is a sequence of one-character strings                *)

Digits == <<"0", "1", "2", "3", "4", "5", "6", "7", "8", "9">>

RECURSIVE NatStr(_)
NatStr(n) == IF n < 10 THEN <<Digits[n + 1]>>
             ELSE NatStr(n \div 10) \o <<Digits[(n % 10) + 1]>>

\* str() of an int, as an f-string formats it
IntStr(n) == IF n < 0 THEN <<"-">> \o NatStr(-n) ELSE NatStr(n)

\* f"{bp_sys}/{bp_dia}" (app.py 240, 317)
bp_str(bp_sys, bp_dia) == IntStr(bp_sys) \o <<"/">> \o IntStr(bp_dia)

RECURSIVE Split(_, _)
\* s.split(sep): the pieces of s between the occurrences of sep
Split(s, sep) ==
    IF \A i \in 1 .. Len(s) : s[i] # sep THEN <<s>>
    ELSE LET i == CHOOSE k \in 1 .. Len(s) :
                      s[k] = sep /\ \A j \in 1 .. (k - 1) : s[j] # sep
         IN  <<SubSeq(s, 1, i - 1)>> \o Split(SubSeq(s, i + 1, Len(s)), sep)

DigitValue(c) == CHOOSE d \in 0 .. 9 : Digits[d + 1] = c

IsDigit(c) == \E d \in 0 .. 9 : Digits[d + 1] = c

RECURSIVE NatOfDigits(_)
NatOfDigits(s) == IF s = <<>> THEN 0
                  ELSE 10 * NatOfDigits(SubSeq(s, 1, Len(s) - 1)) + DigitValue(s[Len(s)])

\* does int(s) return (an optional sign, then digits) or raise ValueError
IsIntLiteral(s) ==
    LET d == IF s # <<>> /\ s[1] \in {"-", "+"} THEN Tail(s) ELSE s
    IN  d # <<>> /\ \A i \in 1 .. Len(d) : IsDigit(d[i])

\* int(s) for a literal s
IntOfStr(s) ==
    IF s[1] = "-" THEN -NatOfDigits(Tail(s))
    ELSE IF s[1] = "+" THEN NatOfDigits(Tail(s))
    ELSE NatOfDigits(s)

\* app.py 289-292: bp_sys, bp_dia = map(int, bp.split('/')), 120/80 on any error
ParseBP(bp) ==
    LET parts == Split(bp, "/")
    IN  IF Len(parts) = 2 /\ IsIntLiteral(parts[1]) /\ IsIntLiteral(parts[2])
        THEN <<IntOfStr(parts[1]), IntOfStr(parts[2])>>
        ELSE <<120, 80>>

---------------------------------------------------------------------------
(* The script run                                                          *)

\* today_date.weekday() >= 5 (app.py 66); day 1 is a Friday
is_weekend(day) == ((day + 3) % 7) >= 5

\* app.py 82
water_goal == WaterGoal(social_mode)

\* app.py 83
has_red_flag == check_red_flag(metrics.bp_sys, metrics.hr)

WorkoutButtonShown_no_gate(flag, weekend) == ~weekend

\* app.py 149-167: the micro-workout button is in the else branch of
\* "if has_red_flag: ... elif is_weekend: ..."
WorkoutButtonShown(flag, weekend) == ~flag /\ ~weekend

\* init_db (app.py 11-27): CREATE TABLE IF NOT EXISTS, or an exception that is
\* caught
init_db(d, ok) == IF ok THEN [d EXCEPT !.exists = TRUE] ELSE d

\* load_history (app.py 53-59): the rows, or an empty frame on any exception
load_history(d, ok) == IF ok /\ d.exists THEN d.health_logs ELSE {}

RECURSIVE SortedDesc(_)
SortedDesc(S) == IF S = {} THEN <<>>
                 ELSE LET m == CHOOSE x \in S : \A y \in S : y <= x
                      IN  <<m>> \o SortedDesc(S \ {m})

\* history_df['date'].tolist() after ORDER BY date DESC (app.py 56, 278)
dates_list(history_df) == SortedDesc({r.date : r \in history_df})

insert_plain(rows, row) == rows \cup {row}

\* INSERT OR REPLACE with date as PRIMARY KEY (app.py 17, 244)
insert_or_replace(rows, row) == {r \in rows : r.date # row.date} \cup {row}

\* the tuple the save handler binds (app.py 240, 247-253)
SaveRow ==
    [date |-> today, actual_age |-> metrics.actual_age, body_age |-> metrics.body_age,
     visceral_fat |-> metrics.vf, muscle_mass |-> metrics.muscle, bmi |-> metrics.bmi,
     resting_hr |-> metrics.hr,
     blood_pressure |-> bp_str(metrics.bp_sys, metrics.bp_dia),
     readiness_score |-> readiness_score, social_mode_active |-> social_mode,
     micro_workouts_done |-> micro_workouts, water_intake_cc |-> water_intake]

e_goal_fixed(e_social) == 2000

\* app.py 318
e_goal(e_social) == IF e_social THEN 3000 ELSE 2000

\* app.py 319
e_score(e) ==
    calculate_readiness(e.vf, e.hr, e.bp_sys, e.body_age, e.actual_age,
                        e.social, e.workouts, e.water, e_goal(e.social))

\* the values the UPDATE statement writes into the selected row (app.py 317-329)
UpdatedRow(r, e) ==
    [r EXCEPT !.actual_age = e.actual_age, !.body_age = e.body_age,
              !.visceral_fat = e.vf, !.muscle_mass = e.muscle, !.bmi = e.bmi,
              !.resting_hr = e.hr,
              !.blood_pressure = bp_str(e.bp_sys, e.bp_dia),
              !.readiness_score = e_score(e), !.social_mode_active = e.social,
              !.micro_workouts_done = e.workouts, !.water_intake_cc = e.water]

\* UPDATE health_logs SET ... WHERE date=? (app.py 325-329)
update_where(rows, date, e) ==
    {IF r.date = date THEN UpdatedRow(r, e) ELSE r : r \in rows}

\* DELETE FROM health_logs WHERE date=? (app.py 342)
delete_where(rows, date) == {r \in rows : r.date # date}

\* the edit form's widget defaults for a fetched row (app.py 288-312)
FormDefaults(row) ==
    LET bp == ParseBP(row.blood_pressure)
    IN  [actual_age |-> row.actual_age, body_age |-> row.body_age,
         vf |-> row.visceral_fat, muscle |-> row.muscle_mass, bmi |-> row.bmi,
         hr |-> row.resting_hr, bp_sys |-> bp[1], bp_dia |-> bp[2],
         social |-> row.social_mode_active, workouts |-> row.micro_workouts_done,
         water |-> row.water_intake_cc]

\* what the user may leave or type in the edit form
EditWater == {2000}

FormInputs(row) ==
    LET dflt == FormDefaults(row)
    IN  {[dflt EXCEPT !.social = s, !.water = w] :
            s \in BOOLEAN, w \in {dflt.water} \cup EditWater}

FailedIf(op, ok) == IF ok THEN {} ELSE {op}

\* the script from the history tabs to its end (app.py 262-349) when neither
\* edit button is pressed: load_history, then the unguarded read of the
\* selected date's row
HistoryTabs(d, failed0) ==
    \E okLoad \in BOOLEAN :
       /\ okLoad => d.exists
       /\ LET history_df == load_history(d, okLoad)
          IN  IF history_df = {}
              THEN /\ run_end' = "end"
                   /\ failed' = failed0 \cup FailedIf("load_history", okLoad)
              ELSE \E okRead \in BOOLEAN :
                     /\ run_end' = IF okRead THEN "end" ELSE "exception"
                     /\ failed' = failed0 \cup FailedIf("read_row", okRead)

\* a run that re-executes the script with no handler: the first rendering, the
\* rerun after st.rerun(), a changed input widget, a button that only shows a
\* message (app.py 156, 232)
PlainRun ==
    \E okInit \in BOOLEAN :
       /\ pressed' = "none"
       /\ db' = init_db(db, okInit)
       /\ HistoryTabs(init_db(db, okInit), FailedIf("init_db", okInit))
       /\ UNCHANGED <<social_mode, metrics, micro_workouts, water_intake,
                      readiness_score, today, probe>>

\* the part every handler that ends in st.rerun() shares
RerunAfter(button) ==
    \E okInit \in BOOLEAN :
       /\ pressed' = button
       /\ db' = init_db(db, okInit)
       /\ failed' = FailedIf("init_db", okInit)
       /\ run_end' = "rerun"
       /\ UNCHANGED <<today, probe>>

\* app.py 116-125
UpdateMetrics(inputs) ==
    /\ run_end # "rerun"
    /\ \E new \in inputs :
          /\ metrics' = new
          /\ readiness_score' =
               calculate_readiness(new.vf, new.hr, new.bp_sys, new.body_age,
                                   new.actual_age, social_mode, micro_workouts,
                                   water_intake, water_goal)
    /\ RerunAfter("update_metrics")
    /\ UNCHANGED <<social_mode, micro_workouts, water_intake>>

\* app.py 167-175
CompleteMicroWorkout(cap) ==
    /\ run_end # "rerun"
    /\ WorkoutButtonShown(has_red_flag, is_weekend(today))
    /\ micro_workouts < cap
    /\ micro_workouts' = micro_workouts + 1
    /\ readiness_score' =
         calculate_readiness(metrics.vf, metrics.hr, metrics.bp_sys, metrics.body_age,
                             metrics.actual_age, social_mode, micro_workouts + 1,
                             water_intake, water_goal)
    /\ RerunAfter("micro_workout")
    /\ UNCHANGED <<social_mode, metrics, water_intake>>

\* app.py 187-195
DrinkWater(cc, cap) ==
    /\ run_end # "rerun"
    /\ water_intake + cc <= cap
    /\ water_intake' = water_intake + cc
    /\ readiness_score' =
         calculate_readiness(metrics.vf, metrics.hr, metrics.bp_sys, metrics.body_age,
                             metrics.actual_age, social_mode, micro_workouts,
                             water_intake + cc, water_goal)
    /\ RerunAfter("drink_water")
    /\ UNCHANGED <<social_mode, metrics, micro_workouts>>

\* app.py 220-223
EndSocial ==
    /\ run_end # "rerun"
    /\ social_mode
    /\ social_mode' = FALSE
    /\ readiness_score' =
         calculate_readiness(metrics.vf, metrics.hr, metrics.bp_sys, metrics.body_age,
                             metrics.actual_age, FALSE, micro_workouts,
                             water_intake, 2000)
    /\ RerunAfter("end_social")
    /\ UNCHANGED <<metrics, micro_workouts, water_intake>>

\* app.py 227-230
StartSocial ==
    /\ run_end # "rerun"
    /\ ~social_mode
    /\ social_mode' = TRUE
    /\ readiness_score' =
         calculate_readiness(metrics.vf, metrics.hr, metrics.bp_sys, metrics.body_age,
                             metrics.actual_age, TRUE, micro_workouts,
                             water_intake, 3000)
    /\ RerunAfter("start_social")
    /\ UNCHANGED <<metrics, micro_workouts, water_intake>>

\* app.py 238-257, then the rest of the script: the handler does not rerun
Save ==
    /\ run_end # "rerun"
    /\ \E okInit, okSave \in BOOLEAN :
          LET d1 == init_db(db, okInit)
              d2 == IF okSave
                    THEN [d1 EXCEPT !.health_logs = insert_or_replace(@, SaveRow)]
                    ELSE d1
          IN  /\ okSave => d1.exists
              /\ pressed' = "save"
              /\ db' = d2
              /\ HistoryTabs(d2, FailedIf("init_db", okInit) \cup FailedIf("save", okSave))
    /\ UNCHANGED <<social_mode, metrics, micro_workouts, water_intake,
                   readiness_score, today, probe>>

\* app.py 276-334: the run reaches the edit form (history loaded, row read),
\* the update button is pressed
UpdateRecord ==
    /\ run_end # "rerun"
    /\ \E okInit, okUpdate \in BOOLEAN :
          LET d1 == init_db(db, okInit)
              history_df == load_history(d1, TRUE)
          IN  /\ d1.exists
              /\ history_df # {}
              /\ \E i \in 1 .. Len(dates_list(history_df)) :
                   LET selected_date == dates_list(history_df)[i]
                   IN  \E row \in {r \in d1.health_logs : r.date = selected_date} :
                       \E e \in FormInputs(row) :
                          /\ db' = IF okUpdate
                                   THEN [d1 EXCEPT !.health_logs =
                                            update_where(@, selected_date, e)]
                                   ELSE d1
                          /\ pressed' = "update_record"
                          /\ run_end' = IF okUpdate THEN "rerun" ELSE "end"
                          /\ failed' = FailedIf("init_db", okInit)
                                         \cup FailedIf("update_record", okUpdate)
    /\ UNCHANGED <<social_mode, metrics, micro_workouts, water_intake,
                   readiness_score, today, probe>>

\* app.py 276-312, 337-347
DeleteRecord ==
    /\ run_end # "rerun"
    /\ \E okInit, okDelete \in BOOLEAN :
          LET d1 == init_db(db, okInit)
              history_df == load_history(d1, TRUE)
          IN  /\ d1.exists
              /\ history_df # {}
              /\ \E i \in 1 .. Len(dates_list(history_df)) :
                   LET selected_date == dates_list(history_df)[i]
                   IN  /\ db' = IF okDelete
                                THEN [d1 EXCEPT !.health_logs =
                                         delete_where(@, selected_date)]
                                ELSE d1
                       /\ pressed' = "delete_record"
                       /\ run_end' = IF okDelete THEN "rerun" ELSE "end"
                       /\ failed' = FailedIf("init_db", okInit)
                                      \cup FailedIf("delete_record", okDelete)
    /\ UNCHANGED <<social_mode, metrics, micro_workouts, water_intake,
                   readiness_score, today, probe>>

\* midnight passes: datetime.date.today() (app.py 64) returns the next day
NextDay(cap) ==
    /\ today < cap
    /\ today' = today + 1
    /\ UNCHANGED <<social_mode, metrics, micro_workouts, water_intake,
                   readiness_score, db, pressed, run_end, failed, probe>>

Init ==
    /\ AppIdle
    /\ probe = IdleProbe

---------------------------------------------------------------------------
(* The session: every handler that writes session state                    *)

MaxWorkouts == 2
MaxWater == 3000
MaxDay == 3

SessionMetricInputs ==
    [actual_age : {54}, body_age : {50, 69}, vf : {16, 50}, muscle : {267},
     bmi : {338}, hr : {63, 99, 100}, bp_sys : {119, 159, 160}, bp_dia : {79}]

NextSession ==
    \/ PlainRun
    \/ UpdateMetrics(SessionMetricInputs)
    \/ CompleteMicroWorkout(MaxWorkouts)
    \/ DrinkWater(250, MaxWater)
    \/ DrinkWater(500, MaxWater)
    \/ StartSocial
    \/ EndSocial
    \/ NextDay(MaxDay)

SpecSession == Init /\ [][NextSession]_vars

---------------------------------------------------------------------------
(* The whole script, with the health_logs table                            *)

MaxLogDay == 2

LogMetricInputs ==
    [actual_age : {54}, body_age : {69}, vf : {50}, muscle : {267},
     bmi : {338}, hr : {63}, bp_sys : {119, 160}, bp_dia : {79}]

Next ==
    \/ PlainRun
    \/ UpdateMetrics(LogMetricInputs)
    \/ StartSocial
    \/ EndSocial
    \/ Save
    \/ UpdateRecord
    \/ DeleteRecord
    \/ NextDay(MaxLogDay)

Spec == Init /\ [][Next]_vars

---------------------------------------------------------------------------
(* Properties of the pure functions, under SpecFn                          *)

ScoreCalled == probe.fn \in {"calculate_readiness", "one_more_workout"}

\* C1: for all inputs, negative and very large ones included,
\* calculate_readiness returns an integer between 0 and 100.
C1_ScoreInRange == ScoreCalled => probe.value \in 0 .. 100

C1_Witness ==
    /\ probe.fn = "calculate_readiness"
    /\ probe.args.bp_sys = 100000
    /\ probe.args.hr = -10
    /\ probe.args.micro_workouts = -1
    /\ probe.value = 0

\* the score as the specification words it, in units of 0.25: the penalties
\* and bonuses summed, the sum clamped to [0, 100], then cut to an integer
Excess(x, threshold) == IF x > threshold THEN x - threshold ELSE 0

ReferenceScore(a) ==
    LET penalties == Excess(a.vf, 20) * 3 + Excess(a.hr, 65) * 8
                       + Excess(a.bp_sys, 130) * 4
                       + Excess(a.body_age, a.actual_age) * 4
                       + (IF a.social_mode THEN 80 ELSE 0)
        bonuses == a.micro_workouts * 12
                     + (IF a.water_intake >= a.water_goal THEN 20 ELSE 0)
        raw == 400 - penalties + bonuses
        clamped == IF raw < 0 THEN 0 ELSE IF raw > 400 THEN 400 ELSE raw
    IN  clamped \div 4

\* C2: calculate_readiness equals the reference formula of the specification
\* on every input with visceral fat in steps of 0.5.
C2_MatchesReference == ScoreCalled => probe.value = ReferenceScore(probe.args)

C2_Witness ==
    /\ probe.fn = "calculate_readiness"
    /\ probe.args.vf = 61
    /\ probe.args.social_mode
    /\ probe.args.water_intake >= probe.args.water_goal
    /\ probe.value \in 1 .. 99

\* vf=25, hr=63, bp_sys=119, body_age=69, actual_age=54, social_mode=False,
\* micro_workouts=0, water_intake=0, water_goal=2000
C3Args ==
    [vf |-> 50, hr |-> 63, bp_sys |-> 119, body_age |-> 69, actual_age |-> 54,
     social_mode |-> FALSE, micro_workouts |-> 0, water_intake |-> 0,
     water_goal |-> 2000]

FreshSession ==
    /\ pressed = "none"
    /\ SessionArgs(metrics, social_mode, micro_workouts, water_intake, water_goal) = C3Args

\* C3 as stated: the call on the default session metrics returns 69, and so
\* the readiness score of a fresh session is 69.
C3_Original ==
    (probe.fn = "calculate_readiness" /\ probe.args = C3Args)
        => (probe.value = 69 /\ FreshSession /\ readiness_score = 69)

\* C3: the call on the default session metrics returns 62 (100 - 22.5 - 15 =
\* 62.5, cut to 62); these are the default session metrics, so the readiness
\* score of a fresh session is 62.
C3_DefaultScoreIs62 ==
    (probe.fn = "calculate_readiness" /\ probe.args = C3Args)
        => (probe.value = 62 /\ FreshSession /\ readiness_score = 62)

C3_Witness == probe.fn = "calculate_readiness" /\ probe.args = C3Args

RedFlagAnswer ==
    probe.fn = "check_red_flag" =>
        /\ probe.flag <=> (probe.args.bp_sys >= 160 \/ probe.args.hr >= 100)
        /\ (probe.args.bp_sys = 160 /\ probe.args.hr = 80) => probe.flag
        /\ (probe.args.bp_sys = 159 /\ probe.args.hr = 99) => ~probe.flag
        /\ (probe.args.bp_sys = 120 /\ probe.args.hr = 100) => probe.flag

RedFlagCallIsPure ==
    probe'.fn = "check_red_flag" =>
        /\ probe'.args = probe.args
        /\ UNCHANGED <<social_mode, metrics, micro_workouts, water_intake,
                       readiness_score, today, db>>

\* C4: check_red_flag returns true exactly when systolic BP >= 160 or heart
\* rate >= 100, and a call changes no state.
C4_RedFlagIff == []RedFlagAnswer /\ [][RedFlagCallIsPure]_vars

C4_Witness ==
    /\ probe.fn = "check_red_flag"
    /\ probe.args.bp_sys = 160
    /\ probe.args.hr = 80
    /\ probe.flag

\* after CallWithOneMoreWorkout probe.args holds micro_workouts = n + 1,
\* probe.value the result with n + 1 and probe.prev the result with n
ClampedAt100 == IntOfQuarters(BaseScore(probe.args)) > 100

NegativeBefore == BaseScore(probe.args) - 3 * 4 < 0

\* C5 as stated: one more micro-workout raises the result by exactly 3 unless
\* the result with n + 1 is clamped at 100.
C5_Original ==
    probe.fn = "one_more_workout" => (~ClampedAt100 => probe.value = probe.prev + 3)

\* C5: one more micro-workout raises the result by exactly 3 unless the result
\* with n + 1 is clamped at 100 or the score with n is negative before the
\* clamp; in that last case the result rises by less than 3.
C5_PlusThreeUnlessClamped ==
    probe.fn = "one_more_workout" =>
        /\ (~ClampedAt100 /\ ~NegativeBefore) => probe.value = probe.prev + 3
        /\ NegativeBefore => (probe.prev = 0 /\ probe.value < 3)

C5_Witness ==
    /\ probe.fn = "one_more_workout"
    /\ ~ClampedAt100
    /\ probe.prev \in 1 .. 96
    /\ probe.value = probe.prev + 3

---------------------------------------------------------------------------
(* Properties of the session, under SpecSession                            *)

\* base_score of the session state's own score, in units of 0.25
SessionBase ==
    base_score(metrics.vf, metrics.hr, metrics.bp_sys, metrics.body_age,
               metrics.actual_age, social_mode, micro_workouts, water_intake,
               IF social_mode THEN 3000 ELSE 2000)

\* C5 as stated, for the "complete a micro-workout" action: the action raises
\* readiness_score by exactly 3 unless the new score is clamped at 100.
C5_OriginalForAction ==
    [][micro_workouts' = micro_workouts + 1 =>
          (IntOfQuarters(SessionBase + 3 * 4) <= 100
              => readiness_score' = readiness_score + 3)]_vars

\* C5 for the action: the same, unless the score before the action is negative
\* before the clamp.
C5_PlusThreeForAction ==
    [][micro_workouts' = micro_workouts + 1 =>
          ((IntOfQuarters(SessionBase + 3 * 4) <= 100 /\ SessionBase >= 0)
              => readiness_score' = readiness_score + 3)]_vars

RedFlagStored == metrics.bp_sys >= 160 \/ metrics.hr >= 100

WorkoutStep ==
    /\ micro_workouts' # micro_workouts =>
          /\ micro_workouts' = micro_workouts + 1
          /\ ~RedFlagStored
          /\ ~((today + 3) % 7 >= 5)
          /\ today' = today
          /\ metrics' = metrics
    /\ RedFlagStored => micro_workouts' = micro_workouts

\* C8: the micro-workout counter is incremented only in a script run whose
\* session systolic BP and heart rate raise no red flag, on a weekday; while
\* the stored metrics raise a red flag the counter does not change.
C8_WorkoutGated == [][WorkoutStep]_vars

C8_Witness ==
    /\ micro_workouts >= 1
    /\ RedFlagStored
    /\ pressed = "update_metrics"

\* C9: in every state a script run leaves, readiness_score is
\* calculate_readiness of the current session metrics, social_mode,
\* micro_workouts and water_intake, with water goal 3000 in social mode and
\* 2000 otherwise.
C9_ScoreIsFresh ==
    readiness_score =
        calculate_readiness(metrics.vf, metrics.hr, metrics.bp_sys, metrics.body_age,
                            metrics.actual_age, social_mode, micro_workouts,
                            water_intake, IF social_mode THEN 3000 ELSE 2000)

C9_Witness ==
    /\ social_mode
    /\ water_intake >= 2000
    /\ water_intake < 3000
    /\ micro_workouts >= 1
    /\ metrics # DefaultMetrics
    /\ pressed = "drink_water"
    /\ readiness_score \in 1 .. 99

---------------------------------------------------------------------------
(* Properties of the stored table, under Spec                              *)

Dates(rows) == {r.date : r \in rows}

OneRecordPerDate ==
    \A r1, r2 \in db.health_logs : r1.date = r2.date => r1 = r2

\* a script run (the day does not change) whose save succeeded
SaveStep ==
    (pressed' = "save" /\ today' = today /\ "save" \notin failed') =>
        /\ SaveRow \in db'.health_logs
        /\ \A r \in db'.health_logs : r = SaveRow \/ (r \in db.health_logs /\ r.date # today)
        /\ \A r \in db.health_logs : r.date # today => r \in db'.health_logs

UpdateStep ==
    (pressed' = "update_record" /\ today' = today) =>
        /\ Dates(db'.health_logs) = Dates(db.health_logs)
        /\ Cardinality(db'.health_logs) = Cardinality(db.health_logs)
        /\ \E d \in Dates(db.health_logs) :
              \A r \in db.health_logs : r.date # d => r \in db'.health_logs

DeleteStep ==
    (pressed' = "delete_record" /\ today' = today /\ "delete_record" \notin failed') =>
        \E d \in Dates(db.health_logs) :
            db'.health_logs = {r \in db.health_logs : r.date # d}

\* C6: the table holds at most one record per date; a save when today's
\* record exists replaces it by the current session values, an edit-update
\* creates no record and changes no date, a delete removes only the selected
\* date's record.
C6_OneRecordPerDate ==
    []OneRecordPerDate /\ [][SaveStep /\ UpdateStep /\ DeleteStep]_vars

\* a successful save that finds a different record for today
SaveOverwrites ==
    /\ pressed' = "save" /\ today' = today /\ "save" \notin failed'
    /\ \E r \in db.health_logs : r.date = today /\ r # SaveRow

C6_Witness ==
    /\ pressed = "save"
    /\ "save" \notin failed
    /\ today = 2
    /\ Cardinality(db.health_logs) = 2
    /\ \E r \in db.health_logs : r.date = today /\ r = SaveRow /\ r.social_mode_active

\* C7 as stated: a storage operation that fails is caught: the script run in
\* which it fails continues to its end (or to its st.rerun()).
C7_StorageFailuresNonFatal == failed # {} => run_end \in {"end", "rerun"}

\* the part of C7 the code does keep: a failed operation changes neither the
\* session state nor the stored records
FailedOperationChangesNothing ==
    (today' = today /\ failed' \cap {"save", "update_record", "delete_record"} # {})
        => /\ db'.health_logs = db.health_logs
           /\ UNCHANGED <<social_mode, metrics, micro_workouts, water_intake,
                          readiness_score>>

C7_FailedOperationsChangeNothing == [][FailedOperationChangesNothing]_vars

SystolicOf(blood_pressure) == IntOfStr(Split(blood_pressure, "/")[1])

\* C10: every stored record's readiness_score is calculate_readiness of that
\* record's own fields, with water goal 3000 if social_mode_active and 2000
\* otherwise.
C10_StoredScoreMatchesRecord ==
    \A r \in db.health_logs :
        r.readiness_score =
            calculate_readiness(r.visceral_fat, r.resting_hr,
                                SystolicOf(r.blood_pressure), r.body_age,
                                r.actual_age, r.social_mode_active,
                                r.micro_workouts_done, r.water_intake_cc,
                                IF r.social_mode_active THEN 3000 ELSE 2000)

C10_Witness ==
    /\ pressed = "update_record"
    /\ "update_record" \notin failed
    /\ \E r \in db.health_logs :
          /\ r.social_mode_active
          /\ r.water_intake_cc = 2000
          /\ SystolicOf(r.blood_pressure) = 160
    /\ \E r \in db.health_logs : ~r.social_mode_active /\ r.water_intake_cc = 0

=============================================================================
